---- MODULE Spec2Model ----
\* Model of src/app.js (the CONTROL voice/gesture assistant): the activation
\* state machine, the cooldown gate inside activate, the speech coordinator
\* (speak, recognition handlers, restart policy) and the palm-hold detector.
\*
\* Time is the value Date.now() returns, in milliseconds.  It advances in
\* Tick steps by Step or to the next timer that is due, whichever comes first;
\* a setTimeout callback runs when its due time is reached, before time
\* advances further.  Platform events (recognition
\* results, errors, end of synthesis, frames) may arrive at any instant.
\* Pending setTimeout callbacks are kept in one queue ordered by due time and,
\* among equal due times, by creation, which is the order the event loop runs
\* them in.  Platform calls are assumed not to throw, except
\* recognition.start() on a session that is already started (caught by the
\* code).  Failures of the recognition session are followed in the runs in
\* which camera access was denied; with the frame loop running the session is
\* taken to stay up.
EXTENDS Integers, Sequences, FiniteSets, TLC

\* ---------------------------------------------------------------- constants
UNINITIALIZED == "UNINITIALIZED"
IDLE == "IDLE"
ACTIVATED == "ACTIVATED"
LISTENING_FOR_COMMAND == "LISTENING_FOR_COMMAND"
ActivationStates == {UNINITIALIZED, IDLE, ACTIVATED, LISTENING_FOR_COMMAND}

ACTIVATION_COOLDOWN == 5000
MOTION_THRESHOLD == 3000
STABLE_THRESHOLD == 400
IDLE_MOTION_LEVEL == 100
STABLE_FRAMES_NEEDED == 20
UNMUTE_DELAY == 3000
IDLE_RESET_DELAY == 3000
ADVANCE_DELAY == 2500
RESTART_DELAY == 100

\* ------------------------------------------------------------------- bounds
\* Date.now() when the page is loaded (any value >= ACTIVATION_COOLDOWN
\* behaves like the real epoch clock against lastActivationTime = 0).
PageLoadTime == 5000
\* The clock is followed for Horizon milliseconds after page load.
Horizon == 5500
\* Granularity of the free passage of time.
Step == 2500
\* Failures (error or spontaneous end) of the recognition session that are
\* followed.
MaxFailures == 2
\* Under LiveSpec the environment acts until PageLoadTime + QuietAfter.
QuietAfter == 3000

\* ------------------------------------------------------------------- inputs
\* Answers to the name prompt ("null": the prompt was cancelled).
NameInputs == {"null", " ", " Ann "}
\* Motion magnitudes (motionLevel) of a frame against the previous one.
Motions == {50, 100, 400, 3000, 4000}
\* Raw transcripts of a recognition result, as sequences of tokens; " " is
\* surrounding white space.
Transcripts == { <<"Hey", "Control", " ">>, <<" ", "Open", "music">>, <<"controls">> }
\* Kinds of recognition error.
ErrorKinds == {"not-allowed", "no-speech", "aborted", "network"}

VARIABLES
  currentState, lastActivationTime, userName,
  isRecognitionActive, recognitionPaused,
  lastFrame, stableFrameCount, palmDetectionActive,
  startPhase,      \* position of the startBtn.onclick handler
  recog,           \* the platform's recognition session
  camera,          \* the requestAnimationFrame loop
  utterances,      \* utterances queued in speechSynthesis, not yet ended
  now,             \* Date.now()
  timers,          \* pending setTimeout callbacks, in firing order
  ev,              \* what the last step did (observation only)
  accepts,         \* timestamps of the accepted activations (observation)
  lastDoneAt,      \* when the synthesis queue last became empty, or -1
  routed,          \* router invocations since ListeningForCommand was entered
  denied,          \* a not-allowed error has been handled
  failures,        \* failures of the recognition session so far
  run              \* progress of a [big motion, still, still, ...] sequence

progVars == <<currentState, lastActivationTime, userName, isRecognitionActive,
              recognitionPaused, lastFrame, stableFrameCount, palmDetectionActive>>
envVars == <<startPhase, recog, camera, utterances, now>>
obsVars == <<ev, accepts, lastDoneAt, routed, denied, failures, run>>
vars == <<progVars, envVars, timers, obsVars>>

\* ------------------------------------------------------------------ helpers
Min(S) == CHOOSE x \in S : \A y \in S : x <= y

\* Number of entries of the timer queue q due no later than d.
RECURSIVE dueBy(_, _)
dueBy(q, d) == IF q = <<>> \/ Head(q).due > d THEN 0 ELSE 1 + dueBy(Tail(q), d)

\* setTimeout(callback, delay) on the queue q: the callback is queued behind
\* the callbacks due no later than it.  A second idle-reset callback for the
\* same instant is not queued (the closures are alike).
setTimeout(q, kind, delay) ==
  LET t == [due |-> now + delay, kind |-> kind]
      k == dueBy(q, t.due)
  IN IF kind = "idleReset" /\ \E i \in 1..Len(q) : q[i] = t
     THEN q
     ELSE SubSeq(q, 1, k) \o <<t>> \o SubSeq(q, k + 1, Len(q))

\* The callback at the head of the queue is of this kind and is due.
Due(kind) == timers # <<>> /\ Head(timers).kind = kind /\ Head(timers).due <= now

\* Number of pending callbacks of a kind.
pending(kind) == Cardinality({i \in 1..Len(timers) : timers[i].kind = kind})

NoEv == [op |-> "", paused |-> FALSE, acts |-> <<>>, accepted |-> FALSE,
         router |-> <<>>, gesture |-> FALSE, restart |-> "none",
         motion |-> -1, armed |-> FALSE, err |-> ""]

NoRun == [n |-> -1, start |-> 0]

\* String.prototype.toLowerCase on a token.
toLowerCase(tok) ==
  CASE tok = "Hey" -> "hey"
    [] tok = "Control" -> "control"
    [] tok = "Open" -> "open"
    [] OTHER -> tok

RECURSIVE trimLeft(_)
trimLeft(s) == IF s # <<>> /\ Head(s) = " " THEN trimLeft(Tail(s)) ELSE s

RECURSIVE trimRight(_)
trimRight(s) ==
  IF s # <<>> /\ s[Len(s)] = " " THEN trimRight(SubSeq(s, 1, Len(s) - 1)) ELSE s

\* transcript.toLowerCase().trim()
normalize(raw) == trimLeft(trimRight([i \in 1..Len(raw) |-> toLowerCase(raw[i])]))

\* text.includes("control"): some token has "control" as a substring.
includesControl(text) == \E i \in 1..Len(text) : text[i] \in {"control", "controls"}

\* transitionTo(newState): the value assigned to currentState.
transitionTo(newState) == newState

\* ---------------------------------------------------------------------- Init
Init ==
  /\ currentState = UNINITIALIZED
  /\ lastActivationTime = 0
  /\ userName = ""
  /\ isRecognitionActive = FALSE
  /\ recognitionPaused = FALSE
  /\ lastFrame = "null"
  /\ stableFrameCount = 0
  /\ palmDetectionActive = FALSE
  /\ startPhase = "ready"
  /\ recog = "none"
  /\ camera = "off"
  /\ utterances = 0
  /\ now = PageLoadTime
  /\ timers = <<>>
  /\ ev = NoEv
  /\ accepts = <<>>
  /\ lastDoneAt = -1
  /\ routed = 0
  /\ denied = FALSE
  /\ failures = 0
  /\ run = NoRun

\* ---------------------------------------------------------------------- time
Tick ==
  /\ timers # <<>> => Head(timers).due > now
  /\ now' = Min({now + Step} \cup {timers[i].due : i \in 1..Len(timers)})
  /\ now' <= PageLoadTime + Horizon
  /\ ev' = [NoEv EXCEPT !.op = "Tick"]
  /\ UNCHANGED <<progVars, startPhase, recog, camera, utterances, timers,
                 accepts, lastDoneAt, routed, denied, failures, run>>

\* --------------------------------------------------------------------- speak
\* speak(text): mute, then hand the utterance to speechSynthesis.
speak ==
  /\ recognitionPaused' = TRUE
  /\ utterances' = utterances + 1
  /\ lastDoneAt' = -1

noSpeak == UNCHANGED <<recognitionPaused, utterances, lastDoneAt>>

\* utter.onend / utter.onerror of the utterance at the head of the synthesis
\* queue: schedule the unmute UNMUTE_DELAY later.
utterDone(handler) ==
  /\ utterances > 0
  /\ utterances' = utterances - 1
  /\ timers' = setTimeout(timers, "unmute", UNMUTE_DELAY)
  /\ lastDoneAt' = IF utterances = 1 THEN now ELSE -1
  /\ ev' = [NoEv EXCEPT !.op = handler]
  /\ UNCHANGED <<progVars, startPhase, recog, camera, now, accepts, routed,
                 denied, failures, run>>

UtterOnEnd == utterDone("UtterOnEnd")

\* utter.onerror with the setTimeout left out.
UtterOnErrorNoUnmute ==
  /\ utterances > 0
  /\ utterances' = utterances - 1
  /\ lastDoneAt' = IF utterances = 1 THEN now ELSE -1
  /\ ev' = [NoEv EXCEPT !.op = "UtterOnError"]
  /\ UNCHANGED <<progVars, startPhase, recog, camera, now, timers, accepts,
                 routed, denied, failures, run>>

UtterOnError == utterDone("UtterOnError")

\* The callback of the setTimeout in utter.onend / utter.onerror.
UnmuteTimer ==
  /\ Due("unmute")
  /\ timers' = Tail(timers)
  /\ recognitionPaused' = FALSE
  /\ ev' = [NoEv EXCEPT !.op = "UnmuteTimer", !.paused = recognitionPaused]
  /\ UNCHANGED <<currentState, lastActivationTime, userName, isRecognitionActive,
                 lastFrame, stableFrameCount, palmDetectionActive, envVars,
                 accepts, lastDoneAt, routed, denied, failures, run>>

\* ------------------------------------------------------------------ activate
\* activate with the commit of lastActivationTime left out.
activateNoCommit(source) ==
  IF now - lastActivationTime < ACTIVATION_COOLDOWN
  THEN [accepted |-> FALSE, state |-> currentState, last |-> lastActivationTime]
  ELSE IF currentState # IDLE
  THEN [accepted |-> FALSE, state |-> currentState, last |-> lastActivationTime]
  ELSE [accepted |-> TRUE, state |-> transitionTo(ACTIVATED),
        last |-> lastActivationTime]

\* activate with the cooldown test left out.
activateNoCooldown(source) ==
  IF currentState # IDLE
  THEN [accepted |-> FALSE, state |-> currentState, last |-> lastActivationTime]
  ELSE [accepted |-> TRUE, state |-> transitionTo(ACTIVATED), last |-> now]

\* activate with the test of currentState left out.
activateNoIdleCheck(source) ==
  IF now - lastActivationTime < ACTIVATION_COOLDOWN
  THEN [accepted |-> FALSE, state |-> currentState, last |-> lastActivationTime]
  ELSE [accepted |-> TRUE, state |-> transitionTo(ACTIVATED), last |-> now]

\* activate with lastActivationTime committed before the two tests.
activateCommitFirst(source) ==
  IF now - lastActivationTime < ACTIVATION_COOLDOWN
  THEN [accepted |-> FALSE, state |-> currentState, last |-> now]
  ELSE IF currentState # IDLE
  THEN [accepted |-> FALSE, state |-> currentState, last |-> now]
  ELSE [accepted |-> TRUE, state |-> transitionTo(ACTIVATED), last |-> now]

\* activate(source): the cooldown gate and the Idle check; the outcome and the
\* values it leaves in currentState and lastActivationTime.
activate(source) ==
  IF now - lastActivationTime < ACTIVATION_COOLDOWN
  THEN [accepted |-> FALSE, state |-> currentState, last |-> lastActivationTime]
  ELSE IF currentState # IDLE
  THEN [accepted |-> FALSE, state |-> currentState, last |-> lastActivationTime]
  ELSE [accepted |-> TRUE, state |-> transitionTo(ACTIVATED), last |-> now]

\* The rest of an activate call with the auto-advance setTimeout left out.
activatedNoAdvance(r, q) ==
  /\ currentState' = r.state
  /\ lastActivationTime' = r.last
  /\ IF r.accepted
     THEN /\ speak
          /\ timers' = q
          /\ accepts' = Append(accepts, now)
     ELSE /\ noSpeak
          /\ timers' = q
          /\ UNCHANGED accepts

\* The rest of an activate call with outcome r, on the timer queue q: on
\* acceptance the greeting is spoken and the auto-advance timer is scheduled.
activated(r, q) ==
  /\ currentState' = r.state
  /\ lastActivationTime' = r.last
  /\ IF r.accepted
     THEN /\ speak
          /\ timers' = setTimeout(q, "advance", ADVANCE_DELAY)
          /\ accepts' = Append(accepts, now)
     ELSE /\ noSpeak
          /\ timers' = q
          /\ UNCHANGED accepts

\* The callback of the setTimeout in activate.
AdvanceTimer ==
  /\ Due("advance")
  /\ timers' = Tail(timers)
  /\ IF currentState = ACTIVATED
     THEN currentState' = transitionTo(LISTENING_FOR_COMMAND) /\ routed' = 0
     ELSE UNCHANGED <<currentState, routed>>
  /\ ev' = [NoEv EXCEPT !.op = "AdvanceTimer"]
  /\ UNCHANGED <<lastActivationTime, userName, isRecognitionActive,
                 recognitionPaused, lastFrame, stableFrameCount,
                 palmDetectionActive, envVars, accepts, lastDoneAt, denied,
                 failures, run>>

\* ------------------------------------------------------- recognition session
\* recognition.start(): starts a session that is not running; on a session
\* already started it throws, which the callers catch.
start(session) == IF session = "off" THEN "starting" ELSE session

\* recognition.onstart
OnStart ==
  /\ recog = "starting"
  /\ recog' = "on"
  /\ isRecognitionActive' = TRUE
  /\ ev' = [NoEv EXCEPT !.op = "OnStart"]
  /\ UNCHANGED <<currentState, lastActivationTime, userName, recognitionPaused,
                 lastFrame, stableFrameCount, palmDetectionActive, startPhase,
                 camera, utterances, now, timers, accepts, lastDoneAt, routed,
                 denied, failures, run>>

\* The command branch with handleCommand(text) called before transitionTo(IDLE).
captureCommandRouterFirst(text) ==
  [state |-> transitionTo(IDLE),
   router |-> <<[text |-> text, state |-> currentState]>>]

\* The command branch of recognition.onresult: transitionTo(IDLE), then
\* handleCommand(text); each router call is recorded with the activation state
\* it began in.
captureCommand(text) ==
  LET s == transitionTo(IDLE)
  IN [state |-> s, router |-> <<[text |-> text, state |-> s]>>]

\* recognition.onresult for the transcript raw, with the value of the pause
\* test.  handleCommand ends in one speak call on every path.
onresult(raw, paused) ==
  /\ recog = "on"
  /\ IF paused
     THEN /\ ev' = [NoEv EXCEPT !.op = "OnResult", !.paused = recognitionPaused]
          /\ UNCHANGED <<progVars, envVars, timers, accepts, lastDoneAt,
                         routed, denied, failures, run>>
     ELSE LET text == normalize(raw) IN
          IF currentState = IDLE /\ includesControl(text)
          THEN LET r == activate("voice") IN
               /\ activated(r, timers)
               /\ ev' = [NoEv EXCEPT !.op = "OnResult",
                                     !.paused = recognitionPaused,
                                     !.acts = <<"voice">>,
                                     !.accepted = r.accepted]
               /\ UNCHANGED <<userName, isRecognitionActive, lastFrame,
                              stableFrameCount, palmDetectionActive, startPhase,
                              recog, camera, now, routed, denied, failures, run>>
          ELSE IF currentState = LISTENING_FOR_COMMAND
          THEN LET c == captureCommand(text) IN
               /\ currentState' = c.state
               /\ speak
               /\ routed' = routed + Len(c.router)
               /\ ev' = [NoEv EXCEPT !.op = "OnResult",
                                     !.paused = recognitionPaused,
                                     !.router = c.router]
               /\ UNCHANGED <<lastActivationTime, userName, isRecognitionActive,
                              lastFrame, stableFrameCount, palmDetectionActive,
                              startPhase, recog, camera, now, timers, accepts,
                              denied, failures, run>>
          ELSE /\ ev' = [NoEv EXCEPT !.op = "OnResult",
                                     !.paused = recognitionPaused]
               /\ UNCHANGED <<progVars, envVars, timers, accepts, lastDoneAt,
                              routed, denied, failures, run>>

\* recognition.onresult with the pause test left out.
OnResultUnpaused == \E raw \in Transcripts : onresult(raw, FALSE)

OnResult == \E raw \in Transcripts : onresult(raw, recognitionPaused)

\* restartRecognition() with the test of isRecognitionActive inverted.
restartRecognitionInverted(active) ==
  IF active THEN setTimeout(timers, "restart", RESTART_DELAY) ELSE timers

\* restartRecognition(), given the value isRecognitionActive has at the call:
\* the timer queue afterwards.
restartRecognition(active) ==
  IF active THEN timers ELSE setTimeout(timers, "restart", RESTART_DELAY)

\* recognition.onerror; the platform delivers the end event afterwards.
onerror(kind) ==
  /\ recog \in {"starting", "on"}
  /\ camera = "off" /\ failures < MaxFailures
  /\ failures' = failures + 1
  /\ recog' = "ending"
  /\ IF kind = "not-allowed"
     THEN /\ isRecognitionActive' = FALSE
          /\ denied' = TRUE
          /\ UNCHANGED timers
     ELSE /\ timers' = restartRecognition(isRecognitionActive)
          /\ UNCHANGED <<isRecognitionActive, denied>>
  /\ ev' = [NoEv EXCEPT !.op = "OnError", !.err = kind,
                        !.restart = IF timers' # timers
                                    THEN "scheduled" ELSE "none"]
  /\ UNCHANGED <<currentState, lastActivationTime, userName, recognitionPaused,
                 lastFrame, stableFrameCount, palmDetectionActive, startPhase,
                 camera, utterances, now, accepts, lastDoneAt, routed, run>>

OnError == \E kind \in ErrorKinds : onerror(kind)

\* recognition.onend: after an error, or the session ending on its own.
OnEnd ==
  /\ recog \in {"on", "ending"}
  /\ recog = "on" => camera = "off" /\ failures < MaxFailures
  /\ failures' = IF recog = "on" THEN failures + 1 ELSE failures
  /\ recog' = "off"
  /\ isRecognitionActive' = FALSE
  /\ IF currentState # UNINITIALIZED
     THEN timers' = restartRecognition(FALSE)
     ELSE UNCHANGED timers
  /\ ev' = [NoEv EXCEPT !.op = "OnEnd",
                        !.restart = IF timers' # timers
                                    THEN "scheduled" ELSE "none"]
  /\ UNCHANGED <<currentState, lastActivationTime, userName, recognitionPaused,
                 lastFrame, stableFrameCount, palmDetectionActive, startPhase,
                 camera, utterances, now, accepts, lastDoneAt, routed, denied,
                 run>>

\* The callback of the setTimeout in restartRecognition.
RestartTimer ==
  /\ Due("restart")
  /\ timers' = Tail(timers)
  /\ IF currentState # UNINITIALIZED /\ ~isRecognitionActive
     THEN /\ recog' = start(recog)
          /\ ev' = [NoEv EXCEPT !.op = "RestartTimer", !.restart = "start"]
     ELSE /\ UNCHANGED recog
          /\ ev' = [NoEv EXCEPT !.op = "RestartTimer"]
  /\ UNCHANGED <<progVars, startPhase, camera, utterances, now, accepts,
                 lastDoneAt, routed, denied, failures, run>>

\* --------------------------------------------------------------- system start
\* nameInput.trim(), "" when the prompt was cancelled or left blank.
trimName(nameInput) == IF nameInput = " Ann " THEN "Ann" ELSE ""

\* startBtn.onclick up to `await startCamera()`, with the value of the test
\* currentState !== STATE.UNINITIALIZED.  The button is disabled while the
\* handler awaits the camera, so it is not entered a second time meanwhile.
startBtnOnclick(nameInput, started) ==
  IF started
  THEN /\ ev' = [NoEv EXCEPT !.op = "StartClick"]
       /\ UNCHANGED <<progVars, envVars, timers, accepts, lastDoneAt, routed,
                      denied, failures, run>>
  ELSE /\ startPhase # "awaitCamera"
       /\ userName' = trimName(nameInput)
       /\ startPhase' = "awaitCamera"
       /\ ev' = [NoEv EXCEPT !.op = "StartClick", !.restart = "wiring"]
       /\ UNCHANGED <<currentState, lastActivationTime, isRecognitionActive,
                      recognitionPaused, lastFrame, stableFrameCount,
                      palmDetectionActive, recog, camera, utterances, now,
                      timers, accepts, lastDoneAt, routed, denied, failures,
                      run>>

\* startBtn.onclick with the test of currentState left out.
StartClickUnguarded ==
  \E nameInput \in NameInputs : startBtnOnclick(nameInput, FALSE)

StartClick ==
  \E nameInput \in NameInputs :
    startBtnOnclick(nameInput, currentState # UNINITIALIZED)

\* startBtn.onclick after the await: startCamera() has resolved (stream granted
\* or denied), startSpeech() (supported or not), transitionTo(IDLE), welcome.
StartResume ==
  \E cameraOK \in BOOLEAN, supported \in BOOLEAN :
    /\ startPhase = "awaitCamera"
    /\ startPhase' = "done"
    /\ camera' = IF cameraOK THEN "loading" ELSE "off"
    /\ recog' = IF supported THEN start("off") ELSE "none"
    /\ currentState' = transitionTo(IDLE)
    /\ IF userName # "" THEN speak ELSE noSpeak
    /\ ev' = [NoEv EXCEPT !.op = "StartResume"]
    /\ UNCHANGED <<lastActivationTime, userName, isRecognitionActive, lastFrame,
                   stableFrameCount, palmDetectionActive, now, timers, accepts,
                   routed, denied, failures, run>>

\* video.onloadedmetadata: the first requestAnimationFrame(detectMotion).
CameraLoaded ==
  /\ camera = "loading"
  /\ camera' = "looping"
  /\ ev' = [NoEv EXCEPT !.op = "CameraLoaded"]
  /\ UNCHANGED <<progVars, startPhase, recog, utterances, now, timers, accepts,
                 lastDoneAt, routed, denied, failures, run>>

\* -------------------------------------------------------------- detectMotion
\* The palm detection logic with the test stableFrameCount > 20 in place of
\* stableFrameCount >= 20.
classifyLate(m) ==
  IF m > MOTION_THRESHOLD
  THEN IF ~palmDetectionActive
       THEN [armed |-> TRUE, count |-> 0, gesture |-> FALSE]
       ELSE [armed |-> palmDetectionActive, count |-> stableFrameCount,
             gesture |-> FALSE]
  ELSE IF palmDetectionActive /\ m < STABLE_THRESHOLD
  THEN IF stableFrameCount + 1 > STABLE_FRAMES_NEEDED
       THEN [armed |-> FALSE, count |-> 0, gesture |-> TRUE]
       ELSE [armed |-> TRUE, count |-> stableFrameCount + 1, gesture |-> FALSE]
  ELSE IF palmDetectionActive /\ m >= STABLE_THRESHOLD /\ m < MOTION_THRESHOLD
  THEN [armed |-> TRUE, count |-> 0, gesture |-> FALSE]
  ELSE IF palmDetectionActive /\ m >= MOTION_THRESHOLD
  THEN [armed |-> TRUE, count |-> 0, gesture |-> FALSE]
  ELSE [armed |-> palmDetectionActive, count |-> stableFrameCount,
        gesture |-> FALSE]

\* The palm detection logic of detectMotion for motionLevel m: the values left
\* in palmDetectionActive and stableFrameCount, and whether activate("palm")
\* is called.
classify(m) ==
  IF m > MOTION_THRESHOLD
  THEN IF ~palmDetectionActive
       THEN [armed |-> TRUE, count |-> 0, gesture |-> FALSE]
       ELSE [armed |-> palmDetectionActive, count |-> stableFrameCount,
             gesture |-> FALSE]
  ELSE IF palmDetectionActive /\ m < STABLE_THRESHOLD
  THEN IF stableFrameCount + 1 >= STABLE_FRAMES_NEEDED
       THEN [armed |-> FALSE, count |-> 0, gesture |-> TRUE]
       ELSE [armed |-> TRUE, count |-> stableFrameCount + 1, gesture |-> FALSE]
  ELSE IF palmDetectionActive /\ m >= STABLE_THRESHOLD /\ m < MOTION_THRESHOLD
  THEN [armed |-> TRUE, count |-> 0, gesture |-> FALSE]
  ELSE IF palmDetectionActive /\ m >= MOTION_THRESHOLD
  THEN [armed |-> TRUE, count |-> 0, gesture |-> FALSE]
  ELSE [armed |-> palmDetectionActive, count |-> stableFrameCount,
        gesture |-> FALSE]

\* The idle-reset setTimeout at the end of the evaluation of a frame with
\* motionLevel m that left the detector armed or not: the timer queue after it.
idleReset(m, armed) ==
  IF armed /\ m < IDLE_MOTION_LEVEL
  THEN setTimeout(timers, "idleReset", IDLE_RESET_DELAY)
  ELSE timers

\* Progress of the frame sequence [4000], [50], [50], ... that began with the
\* detector disarmed: n stable frames so far, the first frame at time start.
runAfter(m) ==
  IF ~palmDetectionActive /\ m = 4000 THEN [n |-> 0, start |-> now]
  ELSE IF run.n >= 0 /\ run.n < STABLE_FRAMES_NEEDED /\ m = 50
  THEN [run EXCEPT !.n = run.n + 1]
  ELSE NoRun

\* The test that guards the evaluation of a frame, with the test of
\* currentState left out.
evaluatedAnyState == lastFrame # "null"

\* lastFrame && currentState === STATE.IDLE: the frame is evaluated.
evaluated == lastFrame # "null" /\ currentState = IDLE

\* detectMotion(), one frame whose motion against lastFrame is m.  The
\* idle-reset test runs last, on the flags the classification left; an accepted
\* activate("palm") queues its timer before it.
detectMotion(m) ==
  /\ camera = "looping"
  /\ IF currentState = UNINITIALIZED
     THEN /\ camera' = "stopped"
          /\ ev' = [NoEv EXCEPT !.op = "DetectMotion"]
          /\ UNCHANGED <<progVars, startPhase, recog, utterances, now, timers,
                         accepts, lastDoneAt, routed, denied, failures, run>>
     ELSE
       /\ lastFrame' = "frame"
       /\ IF evaluated
          THEN LET c == classify(m)
                   r == IF c.gesture
                        THEN activate("palm")
                        ELSE [accepted |-> FALSE, state |-> currentState,
                              last |-> lastActivationTime]
               IN /\ activated(r, idleReset(m, c.armed))
                  /\ palmDetectionActive' = c.armed
                  /\ stableFrameCount' = c.count
                  /\ run' = runAfter(m)
                  /\ ev' = [NoEv EXCEPT !.op = "DetectMotion",
                                        !.motion = m,
                                        !.armed = palmDetectionActive,
                                        !.gesture = c.gesture,
                                        !.acts = IF c.gesture THEN <<"palm">>
                                                 ELSE <<>>,
                                        !.accepted = r.accepted]
          ELSE /\ run' = NoRun
               /\ ev' = [NoEv EXCEPT !.op = "DetectMotion"]
               /\ UNCHANGED <<currentState, lastActivationTime,
                              recognitionPaused, utterances, lastDoneAt,
                              timers, accepts, palmDetectionActive,
                              stableFrameCount>>
       /\ UNCHANGED <<userName, isRecognitionActive, startPhase, recog, camera,
                      now, routed, denied, failures>>

DetectMotion == \E m \in Motions : detectMotion(m)

\* The callback of the setTimeout in detectMotion; the motionLevel its closure
\* captured was below IDLE_MOTION_LEVEL when it was scheduled.
IdleResetTimer ==
  /\ Due("idleReset")
  /\ timers' = Tail(timers)
  /\ IF palmDetectionActive
     THEN palmDetectionActive' = FALSE /\ stableFrameCount' = 0
     ELSE UNCHANGED <<palmDetectionActive, stableFrameCount>>
  /\ ev' = [NoEv EXCEPT !.op = "IdleResetTimer", !.armed = palmDetectionActive]
  /\ UNCHANGED <<currentState, lastActivationTime, userName,
                 isRecognitionActive, recognitionPaused, lastFrame, envVars,
                 accepts, lastDoneAt, routed, denied, failures, run>>

\* ---------------------------------------------------------------------- Next
Next ==
  \/ Tick
  \/ StartClick
  \/ StartResume
  \/ CameraLoaded
  \/ DetectMotion
  \/ IdleResetTimer
  \/ UtterOnEnd
  \/ UtterOnError
  \/ UnmuteTimer
  \/ AdvanceTimer
  \/ OnStart
  \/ OnResult
  \/ OnError
  \/ OnEnd
  \/ RestartTimer

Spec == Init /\ [][Next]_vars

\* ------------------------------------------------- the program left to itself
\* After PageLoadTime + QuietAfter the user, the camera and the microphone are
\* quiet; time passes to the next pending setTimeout callback.
TimerTick ==
  /\ timers # <<>>
  /\ Head(timers).due > now
  /\ Head(timers).due > PageLoadTime + QuietAfter
  /\ now' = Head(timers).due
  /\ ev' = [NoEv EXCEPT !.op = "Tick"]
  /\ UNCHANGED <<progVars, startPhase, recog, camera, utterances, timers,
                 accepts, lastDoneAt, routed, denied, failures, run>>

\* The setTimeout callback that is due, run by the event loop.
RunDue == UnmuteTimer \/ AdvanceTimer \/ IdleResetTimer \/ RestartTimer

\* The events the platform owes to a recognition.start() and to an error.
Platform == OnStart \/ (recog = "ending" /\ OnEnd)

\* The user, the camera and the microphone have gone quiet.
Quiet == now > PageLoadTime + QuietAfter

\* Next, with the events of the user, the camera and the microphone only until
\* they go quiet.  What runs on: the pending callbacks, the utterances in the
\* synthesis queue, the events the recognition session owes.
LiveNext ==
  \/ ~Quiet /\ Tick
  \/ TimerTick
  \/ ~Quiet /\ StartClick
  \/ ~Quiet /\ StartResume
  \/ ~Quiet /\ CameraLoaded
  \/ ~Quiet /\ DetectMotion
  \/ IdleResetTimer
  \/ UtterOnEnd
  \/ UtterOnError
  \/ UnmuteTimer
  \/ AdvanceTimer
  \/ OnStart
  \/ ~Quiet /\ OnResult
  \/ ~Quiet /\ OnError
  \/ (Quiet => recog = "ending") /\ OnEnd
  \/ RestartTimer

\* Time passes; the event loop runs a callback that is due; the platform
\* delivers the start event after start() and the end event after an error.
Fairness ==
  /\ WF_vars(Tick \/ TimerTick)
  /\ WF_vars(RunDue)
  /\ WF_vars(Platform)

LiveSpec == Init /\ [][LiveNext]_vars /\ Fairness
\* ==================================================================== claims
\* Last accepted activation, or -ACTIVATION_COOLDOWN when there is none yet.
lastAccept == IF accepts = <<>> THEN 0 - ACTIVATION_COOLDOWN
              ELSE accepts[Len(accepts)]

\* C1: the cooldown gate.  Any two accepted activations, from either source,
\* are at least ACTIVATION_COOLDOWN apart, and an activate call made less than
\* ACTIVATION_COOLDOWN after an accepted one is rejected: no transition, no
\* greeting, no new accepted activation.
C1_CooldownGate ==
  [][ /\ \A i \in 1..(Len(accepts') - 1) :
           accepts'[i + 1] - accepts'[i] >= ACTIVATION_COOLDOWN
      /\ (ev'.acts # <<>> /\ accepts # <<>>
            /\ now - lastAccept < ACTIVATION_COOLDOWN)
         => /\ ~ev'.accepted
            /\ accepts' = accepts
            /\ currentState' = currentState
            /\ utterances' = utterances ]_vars

\* A trigger in Idle was rejected by the gate after an accepted activation.
C1_Witness ==
  /\ ev.acts # <<>>
  /\ ~ev.accepted
  /\ currentState = IDLE
  /\ accepts # <<>>
  /\ now - lastAccept < ACTIVATION_COOLDOWN

\* C2: Activated is entered only by an activate call (from onresult or
\* detectMotion) made in Idle with the cooldown elapsed, and
\* ListeningForCommand only by the auto-advance timer of an accepted
\* activation, ADVANCE_DELAY after it, firing in Activated.
C2_EntryOnlyByActivation ==
  [][ /\ (currentState' = ACTIVATED /\ currentState # ACTIVATED)
         => /\ currentState = IDLE
            /\ ev'.op \in {"OnResult", "DetectMotion"}
            /\ ev'.acts # <<>>
            /\ ev'.accepted
            /\ now - lastActivationTime >= ACTIVATION_COOLDOWN
            /\ lastActivationTime' = now
      /\ (currentState' = LISTENING_FOR_COMMAND
            /\ currentState # LISTENING_FOR_COMMAND)
         => /\ currentState = ACTIVATED
            /\ ev'.op = "AdvanceTimer"
            /\ accepts # <<>>
            /\ now = lastAccept + ADVANCE_DELAY ]_vars

\* The auto-advance timer has moved the machine to ListeningForCommand.
C2_Witness ==
  /\ currentState = LISTENING_FOR_COMMAND
  /\ ev.op = "AdvanceTimer"
  /\ accepts # <<>>

\* C3: a recognition result delivered while recognitionPaused is true changes
\* nothing: no activate call, no router call, no change of the program state or
\* of the pending timers.
C3_PausedResultIgnored ==
  [][ (ev'.op = "OnResult" /\ recognitionPaused)
      => /\ ev'.acts = <<>>
         /\ ev'.router = <<>>
         /\ UNCHANGED <<progVars, utterances, timers>> ]_vars

\* A result was discarded while the machine was listening for a command.
C3_Witness ==
  /\ ev.op = "OnResult"
  /\ ev.paused
  /\ recognitionPaused
  /\ currentState = LISTENING_FOR_COMMAND

\* C4: while an utterance handed to speechSynthesis has neither ended nor
\* failed, recognitionPaused is true.
C4_NeverHearsItself == utterances > 0 => recognitionPaused

\* C5: recognition is not unmuted earlier than UNMUTE_DELAY after the
\* completion of the most recently issued speak.
C5_LastCompletionGoverns ==
  (~recognitionPaused /\ utterances = 0 /\ lastDoneAt >= 0)
  => now - lastDoneAt >= UNMUTE_DELAY

\* C6: in a sequence [4000], [50], [50], ... evaluated in Idle that began with
\* the detector disarmed, activate("palm") is called on the 20th stable frame
\* and on no earlier one, and the detector is then disarmed with
\* stableFrameCount 0.  Stated for the sequences whose frames all arrive
\* within IDLE_RESET_DELAY of the first one.
C6_TwentiethStableFrame ==
  [][ (ev'.op = "DetectMotion" /\ run'.n >= 1
         /\ now - run'.start < IDLE_RESET_DELAY)
      => /\ ev'.gesture <=> run'.n = STABLE_FRAMES_NEEDED
         /\ run'.n = STABLE_FRAMES_NEEDED
            => ~palmDetectionActive' /\ stableFrameCount' = 0 ]_vars

\* C7: a frame evaluated while the detector is armed with motion at or above
\* MOTION_THRESHOLD leaves stableFrameCount 0 and the detector armed.
C7_BigMotionRestartsHold ==
  [][ (ev'.op = "DetectMotion" /\ ev'.armed
         /\ ev'.motion >= MOTION_THRESHOLD)
      => stableFrameCount' = 0 /\ palmDetectionActive' ]_vars

\* C8: an unpaused recognition result received in ListeningForCommand calls
\* the router exactly once, with the normalised text of a transcript, the
\* machine being in Idle when the call begins; no other result calls the
\* router, and the router is called at most once per entry into
\* ListeningForCommand.
C8_CommandCapture ==
  [][ /\ ev'.op = "OnResult"
         => IF ~recognitionPaused /\ currentState = LISTENING_FOR_COMMAND
            THEN /\ \E raw \in Transcripts :
                      ev'.router = <<[text |-> normalize(raw), state |-> IDLE]>>
                 /\ currentState' = IDLE
                 /\ routed' = 1
            ELSE ev'.router = <<>> /\ routed' = routed
      /\ ev'.op # "OnResult" => ev'.router = <<>>
      /\ routed' <= 1 ]_vars

\* A command was captured and handed to the router.
C8_Witness ==
  /\ ev.op = "OnResult"
  /\ ev.router # <<>>
  /\ currentState = IDLE
  /\ routed = 1

\* C9: the start operation invoked while the activation state is not Dormant
\* changes nothing: nothing is wired, nothing is spoken, and the activation
\* state, userName and lastActivationTime keep their values.
C9_StartIdempotent ==
  [][ (ev'.op = "StartClick" /\ currentState # UNINITIALIZED)
      => UNCHANGED <<progVars, envVars, timers>> ]_vars

\* The start operation was invoked on a started system.
C9_Witness ==
  /\ ev.op = "StartClick"
  /\ currentState # UNINITIALIZED
  /\ startPhase = "done"

\* C10: a not-allowed error leaves the activation state unchanged and the
\* session marked inactive, and once one has been handled no restart of
\* recognition is scheduled or attempted.
C10_NoRestartAfterDenied ==
  [][ /\ (ev'.op = "OnError" /\ ev'.err = "not-allowed")
         => currentState' = currentState /\ ~isRecognitionActive'
      /\ denied => ev'.restart = "none" ]_vars

\* C11: once Activated is entered the auto-advance timer fires ADVANCE_DELAY
\* later and moves the machine to ListeningForCommand; no other step leaves
\* Activated; the timer callback changes nothing when it finds another state.
C11_OnlyAutoAdvanceLeavesActivated ==
  /\ [][ /\ (currentState = ACTIVATED /\ currentState' # ACTIVATED)
            => /\ ev'.op = "AdvanceTimer"
               /\ currentState' = LISTENING_FOR_COMMAND
               /\ now = lastActivationTime + ADVANCE_DELAY
         /\ ev'.op = "AdvanceTimer"
            => IF currentState = ACTIVATED
               THEN currentState' = LISTENING_FOR_COMMAND
               ELSE UNCHANGED <<progVars, utterances>> ]_vars
  /\ [](currentState = ACTIVATED => now <= lastActivationTime + ADVANCE_DELAY)
  /\ (currentState = ACTIVATED) ~> (currentState = LISTENING_FOR_COMMAND)

\* The auto-advance timer fired after the last event of the environment and
\* found Activated.
C11_Witness ==
  /\ ev.op = "AdvanceTimer"
  /\ currentState = LISTENING_FOR_COMMAND
  /\ now = lastActivationTime + ADVANCE_DELAY
  /\ now > PageLoadTime + QuietAfter

\* C12: a rejected activate call changes nothing: the activation state,
\* lastActivationTime, recognitionPaused, the synthesis queue and the pending
\* timers keep their values; activate rejects whenever the cooldown has not
\* elapsed or the state is not Idle; lastActivationTime changes only in an
\* accepted step from Idle to Activated.
C12_RejectedActivationNoOp ==
  /\ [][ /\ (ev'.acts # <<>> /\ ~ev'.accepted)
            => UNCHANGED <<currentState, lastActivationTime, recognitionPaused,
                           utterances, timers, accepts>>
         /\ lastActivationTime' # lastActivationTime
            => /\ ev'.accepted
               /\ currentState = IDLE
               /\ currentState' = ACTIVATED
               /\ lastActivationTime' = now ]_vars
  /\ [](\A source \in {"voice", "palm"} :
          (now - lastActivationTime < ACTIVATION_COOLDOWN \/ currentState # IDLE)
          => activate(source) = [accepted |-> FALSE, state |-> currentState,
                                 last |-> lastActivationTime])

\* A completed palm gesture was rejected by the cooldown gate.
C12_Witness ==
  /\ ev.acts = <<"palm">>
  /\ ~ev.accepted
  /\ currentState = IDLE
  /\ now - lastActivationTime < ACTIVATION_COOLDOWN

\* C13: at any time at most one restart of the recognition session is pending.
C13_AtMostOneRestartPending == pending("restart") <= 1

\* C14: when the recognition session has ended while the state is not Dormant
\* (after a transient error, or on its own), a restart is pending, due no later
\* than RESTART_DELAY from now, and a session that has failed without a
\* not-allowed error is eventually started again.
C14_SelfHealing ==
  /\ [][ (ev'.op = "OnEnd" /\ currentState # UNINITIALIZED)
         => \E i \in 1..Len(timers') :
              timers'[i] = [due |-> now + RESTART_DELAY, kind |-> "restart"] ]_vars
  /\ []((recog = "off" /\ currentState # UNINITIALIZED)
        => \E i \in 1..Len(timers) :
             timers[i].kind = "restart" /\ timers[i].due <= now + RESTART_DELAY)
  /\ (recog \in {"ending", "off"} /\ ~denied) ~> (recog \in {"starting", "on"})

\* The restart callback has called start() after a failure that was not a
\* not-allowed error.
C14_Witness ==
  /\ ev.op = "RestartTimer"
  /\ ev.restart = "start"
  /\ recog = "starting"
  /\ failures >= 1
  /\ ~denied

\* C15: a frame evaluated in Idle while the detector is not armed arms it, with
\* stableFrameCount 0, when its motion is at or above MOTION_THRESHOLD, and
\* leaves it disarmed when its motion is below MOTION_THRESHOLD.
C15_ArmingThreshold ==
  [][ (ev'.op = "DetectMotion" /\ ev'.motion >= 0 /\ ~palmDetectionActive)
      => IF ev'.motion >= MOTION_THRESHOLD
         THEN palmDetectionActive' /\ stableFrameCount' = 0
         ELSE ~palmDetectionActive' ]_vars

\* C16: the idle timeout disarms the detector only when every frame evaluated
\* since the timeout was scheduled had motion below IDLE_MOTION_LEVEL.  The
\* frame that schedules it leaves stableFrameCount at 1 or more, so the timeout
\* does not disarm a detector whose stableFrameCount is back at 0 (a frame
\* since had motion of STABLE_THRESHOLD or more), nor one that a big motion
\* armed anew after the timeout was scheduled.
C16_IdleTimeoutNeedsSustainedCalm ==
  [][ (ev'.op = "IdleResetTimer" /\ palmDetectionActive
         /\ ~palmDetectionActive')
      => /\ stableFrameCount > 0
         /\ ~(run.n >= 0
               /\ run.start > Head(timers).due - IDLE_RESET_DELAY) ]_vars

\* C17: a frame processed while the state is Activated or ListeningForCommand
\* is not classified: palmDetectionActive and stableFrameCount keep their
\* values, activate is not called, no timer is scheduled; the frame is buffered
\* as lastFrame and the frame loop goes on.
C17_NoClassificationOutsideIdle ==
  [][ (ev'.op = "DetectMotion"
         /\ currentState \in {ACTIVATED, LISTENING_FOR_COMMAND})
      => /\ UNCHANGED <<palmDetectionActive, stableFrameCount, currentState,
                        lastActivationTime, recognitionPaused, utterances,
                        timers>>
         /\ ~ev'.gesture
         /\ ev'.acts = <<>>
         /\ lastFrame' = "frame"
         /\ camera' = "looping" ]_vars

\* A frame was processed in ListeningForCommand with the detector armed and a
\* hold under way.
C17_Witness ==
  /\ ev.op = "DetectMotion"
  /\ currentState = LISTENING_FOR_COMMAND
  /\ palmDetectionActive
  /\ stableFrameCount > 0
  /\ lastFrame = "frame"

\* C18: the end and the failure of an utterance both schedule the unmute
\* UNMUTE_DELAY later; once the synthesis queue has emptied and no speak has
\* been issued since, recognitionPaused does not stay true beyond UNMUTE_DELAY
\* after that moment, and it becomes false unless a further speak is issued.
C18_UnmuteLiveness ==
  /\ [][ /\ ev'.op \in {"UtterOnEnd", "UtterOnError"}
            => \E i \in 1..Len(timers') :
                 timers'[i] = [due |-> now + UNMUTE_DELAY, kind |-> "unmute"]
         /\ ev'.op = "UnmuteTimer" => ~recognitionPaused' ]_vars
  /\ []((lastDoneAt >= 0 /\ recognitionPaused)
        => now <= lastDoneAt + UNMUTE_DELAY)
  /\ (lastDoneAt >= 0 /\ recognitionPaused)
       ~> (~recognitionPaused \/ lastDoneAt < 0)

\* The unmute callback of the last utterance has fired UNMUTE_DELAY after the
\* synthesis queue emptied, and unmuted the recognizer.
C18_Witness ==
  /\ ev.op = "UnmuteTimer"
  /\ ev.paused
  /\ ~recognitionPaused
  /\ utterances = 0
  /\ lastDoneAt >= 0
  /\ now = lastDoneAt + UNMUTE_DELAY

\* C19: stableFrameCount increases only on a frame evaluated in Idle while the
\* detector is armed, with motion below STABLE_THRESHOLD, and then by exactly
\* 1; it is always between 0 and STABLE_FRAMES_NEEDED - 1, and when it is
\* above 0 the detector is armed.
C19_StableCountInvariant ==
  /\ [][ stableFrameCount' > stableFrameCount
         => /\ ev'.op = "DetectMotion"
            /\ currentState = IDLE
            /\ palmDetectionActive
            /\ ev'.motion >= 0
            /\ ev'.motion < STABLE_THRESHOLD
            /\ stableFrameCount' = stableFrameCount + 1 ]_vars
  /\ [](/\ stableFrameCount \in 0..(STABLE_FRAMES_NEEDED - 1)
        /\ stableFrameCount > 0 => palmDetectionActive)

\* A hold one stable frame short of the gesture.
C19_Witness ==
  /\ ev.op = "DetectMotion"
  /\ ev.motion = 50
  /\ ev.armed
  /\ palmDetectionActive
  /\ stableFrameCount = STABLE_FRAMES_NEEDED - 1

\* C20: the only step out of ListeningForCommand is an unpaused recognition
\* result, which leads to Idle; in ListeningForCommand activate rejects; and
\* once no more results are delivered the machine stays in
\* ListeningForCommand forever, whatever callbacks still run.
C20_ListeningHasNoTimeout ==
  /\ [][ (currentState = LISTENING_FOR_COMMAND
            /\ currentState' # LISTENING_FOR_COMMAND)
         => /\ ev'.op = "OnResult"
            /\ ~recognitionPaused
            /\ currentState' = IDLE ]_vars
  /\ [](currentState = LISTENING_FOR_COMMAND
        => \A source \in {"voice", "palm"} : ~activate(source).accepted)
  /\ []((currentState = LISTENING_FOR_COMMAND /\ Quiet)
        => [](currentState = LISTENING_FOR_COMMAND))

\* Everything has run out (no callback pending, nothing being spoken, the
\* recognizer unmuted and the cooldown elapsed) and the machine is still in
\* ListeningForCommand.
C20_Witness ==
  /\ currentState = LISTENING_FOR_COMMAND
  /\ Quiet
  /\ timers = <<>>
  /\ utterances = 0
  /\ ~recognitionPaused
  /\ now - lastActivationTime >= ACTIVATION_COOLDOWN

====
